---- MODULE Spec2Model ----
(***************************************************************************)
(* A model of sample/build-html.py, the script that builds Sample.html     *)
(* from the template Sample.html.in.  Text is modelled by TLA+ strings;    *)
(* the Python string and list operations the script uses (replace, split,  *)
(* indexing, float, format) are operators computed the way Python computes *)
(* them.  The script's environment (the four files, the cloc tool) is      *)
(* chosen by Init and never changes; every statement of the script is one  *)
(* action.                                                                 *)
(***************************************************************************)
EXTENDS Integers, Sequences, FiniteSets

VARIABLES
  present,        \* the paths that exist and are readable
  content,        \* the text of the two text files
  bytes,          \* the byte size of the two bundles
  tool,           \* the cloc invocation: [status, output]
  pc,             \* the statement about to run, "done" or "failed"
  open,           \* the file handles that are open, innermost last
  sample,         \* line 3
  source,         \* line 5
  cloc,           \* line 6
  minified_size,  \* line 7
  gzip_size,      \* line 8
  text,           \* the value of the expression printed by line 9
  stdout,         \* the writes made to standard output, in order
  err,            \* the exception that ended the run, or "none"
  exit,           \* the exit status of the process (-1 while running)
  steps           \* history: the statements started, in order

env  == <<present, content, bytes, tool>>
vars == <<present, content, bytes, tool, pc, open, sample, source, cloc,
          minified_size, gzip_size, text, stdout, err, exit, steps>>

-----------------------------------------------------------------------------
(* The fixed names of the script.                                          *)

TemplatePath == "Sample.html.in"
SourcePath   == "Editor.jsx.bin"
MinifiedPath == "Editor.js"
GzipPath     == "Editor.js.gz"
Paths        == {TemplatePath, SourcePath, MinifiedPath, GzipPath}

SOURCE        == "SOURCE"
MINIFIED_SIZE == "MINIFIED_SIZE"
GZIP_SIZE     == "GZIP_SIZE"
CLOC          == "CLOC"

-----------------------------------------------------------------------------
(* Python's string operations.                                             *)

\* s[i:] for a 0-based i, as a string (SubSeq is 1-based and inclusive).
From(s, i) == IF i >= Len(s) THEN "" ELSE SubSeq(s, i + 1, Len(s))

\* s[:i]
Upto(s, i) == IF i <= 0 THEN "" ELSE SubSeq(s, 1, i)

\* s.startswith(t)
StartsWith(s, t) == Len(t) <= Len(s) /\ Upto(s, Len(t)) = t

RECURSIVE replaceFirst(_, _, _)
\* A replace that stops after the first occurrence, as replace(old, new, 1).
replaceFirst(s, old, new) ==
  IF Len(s) < Len(old) THEN s
  ELSE IF StartsWith(s, old)
       THEN new \o From(s, Len(old))
       ELSE Upto(s, 1) \o replaceFirst(From(s, 1), old, new)

\* str.replace(old, new) for a non-empty old: the occurrences of old are
\* found from the left, never overlapping, and the text put in is not
\* searched again.
RECURSIVE replace(_, _, _)
replace(s, old, new) ==
  IF Len(s) < Len(old) THEN s
  ELSE IF StartsWith(s, old)
       THEN new \o replace(From(s, Len(old)), old, new)
       ELSE Upto(s, 1) \o replace(From(s, 1), old, new)

\* s.find(sep): the 1-based place of the first sep in s, 0 when there is none.
RECURSIVE find(_, _, _)
find(s, sep, i) ==
  IF i + Len(sep) - 1 > Len(s) THEN 0
  ELSE IF SubSeq(s, i, i + Len(sep) - 1) = sep THEN i
  ELSE find(s, sep, i + 1)

\* s.split(sep): always at least one piece.
RECURSIVE split(_, _)
split(s, sep) ==
  LET i == find(s, sep, 1) IN
  IF i = 0 THEN <<s>>
  ELSE <<Upto(s, i - 1)>> \o split(From(s, i + Len(sep) - 1), sep)

Digits == "0123456789"
IsDigit(c) == \E d \in 1..10 : SubSeq(Digits, d, d) = c
DigitValue(c) == (CHOOSE d \in 1..10 : SubSeq(Digits, d, d) = c) - 1

\* str(n) for a natural number n.
RECURSIVE Str(_)
Str(n) ==
  IF n < 10 THEN SubSeq(Digits, n + 1, n + 1)
  ELSE Str(n \div 10) \o SubSeq(Digits, (n % 10) + 1, (n % 10) + 1)

\* float(s) on the texts the model feeds it, digits and letters: it
\* succeeds exactly on a non-empty run of digits, and raises ValueError on
\* the empty text and on any letter.
IsFloatLiteral(s) ==
  /\ s # ""
  /\ \A i \in 1..Len(s) : IsDigit(SubSeq(s, i, i))

RECURSIVE FloatValue(_)
FloatValue(s) ==
  IF s = "" THEN 0
  ELSE 10 * FloatValue(Upto(s, Len(s) - 1)) + DigitValue(SubSeq(s, Len(s), Len(s)))

\* A rounding that drops the fraction, as int() or %d would.
RoundDown(num, den) == num \div den

\* num/den rounded to an integer the way format rounds: to nearest, a tie
\* to the even neighbour.  x/1024.0 is exact in binary floating point for
\* every x the model uses, so the rounding sees the exact quotient.
RoundHalfEven(num, den) ==
  LET q == num \div den
      r == num % den
  IN  IF 2 * r < den THEN q
      ELSE IF 2 * r > den THEN q + 1
      ELSE IF q % 2 = 0 THEN q ELSE q + 1

\* The size formatted without the division by 1024.
Format0fBytes(n) == Str(n)

\* "{:.0f}".format(n/1024.0)
Format0f(n) == Str(RoundHalfEven(n, 1024))

\* The count over 1000 in place of 1024.
Format1fDecimal(c) ==
  LET t == RoundHalfEven(10 * c, 1000)
  IN  Str(t \div 10) \o "." \o Str(t % 10)

\* "{:.1f}".format(c/1024.0)
Format1f(c) ==
  LET t == RoundHalfEven(10 * c, 1024)
  IN  Str(t \div 10) \o "." \o Str(t % 10)

\* commands.getoutput(cmd): the output of the shell running cmd, with one
\* trailing newline removed; the exit status is dropped.
NotFoundMessage == "sh: cloc: command not found\n"
getoutput(t) ==
  LET out == IF t.status = "notfound" THEN NotFoundMessage ELSE t.output
  IN  IF Len(out) > 0 /\ SubSeq(out, Len(out), Len(out)) = "\n"
      THEN Upto(out, Len(out) - 1)
      ELSE out

\* The chain of line 9.
Substituted(smp, src, msz, gsz, cl) ==
  replace(replace(replace(replace(smp, SOURCE, src),
                          MINIFIED_SIZE, Format0f(msz)),
                  GZIP_SIZE, Format0f(gsz)),
          CLOC, Format1f(FloatValue(cl)))

-----------------------------------------------------------------------------
(* The run of the script.                                                  *)

\* An exception that leaves the files open, as open() without with would.
RaiseLeaking(kind) ==
  /\ pc' = "failed"
  /\ err' = kind
  /\ open' = open
  /\ exit' = 1

\* An uncaught exception: the with blocks it leaves close their files
\* (the innermost first), the traceback goes to standard error and the
\* interpreter exits with status 1.
Raise(kind) ==
  /\ pc' = "failed"
  /\ err' = kind
  /\ open' = <<>>
  /\ exit' = 1

Start(step) == steps' = Append(steps, step)

\* The two sizes read in the other order.
SuccGzipFirst(l) ==
  CASE l = "L2" -> "L3"
    [] l = "L3" -> "L4"
    [] l = "L4" -> "L5"
    [] l = "L5" -> "L6"
    [] l = "L6" -> "L8"
    [] l = "L8" -> "L7"
    [] l = "L7" -> "L9"
    [] l = "L9" -> "L9print"
    [] l = "L9print" -> "L5exit"
    [] l = "L5exit" -> "L3exit"
    [] l = "L3exit" -> "done"

\* The statement that runs after statement l has completed normally: the
\* script is one straight line, each with block left where it ends.
Succ(l) ==
  CASE l = "L2" -> "L3"
    [] l = "L3" -> "L4"
    [] l = "L4" -> "L5"
    [] l = "L5" -> "L6"
    [] l = "L6" -> "L7"
    [] l = "L7" -> "L8"
    [] l = "L8" -> "L9"
    [] l = "L9" -> "L9print"
    [] l = "L9print" -> "L5exit"
    [] l = "L5exit" -> "L3exit"
    [] l = "L3exit" -> "done"

\* Line 2: with open("Sample.html.in") as html_file:
OpenTemplate ==
  /\ pc = "L2"
  /\ Start("OpenTemplate")
  /\ IF TemplatePath \in present
     THEN /\ open' = Append(open, TemplatePath)
          /\ pc' = Succ(pc)
          /\ UNCHANGED <<err, exit>>
     ELSE Raise("IOError")
  /\ UNCHANGED <<sample, source, cloc, minified_size, gzip_size, text, stdout>>
  /\ UNCHANGED env

\* Line 3: sample = html_file.read().  Reading a file that was opened is
\* taken to succeed; a file that cannot be read fails at open, like a
\* missing one.
ReadTemplate ==
  /\ pc = "L3"
  /\ Start("ReadTemplate")
  /\ sample' = content[TemplatePath]
  /\ pc' = Succ(pc)
  /\ UNCHANGED <<open, source, cloc, minified_size, gzip_size, text, stdout,
                 err, exit>>
  /\ UNCHANGED env

\* Line 4: with open("Editor.jsx.bin") as source_file:
OpenSource ==
  /\ pc = "L4"
  /\ Start("OpenSource")
  /\ IF SourcePath \in present
     THEN /\ open' = Append(open, SourcePath)
          /\ pc' = Succ(pc)
          /\ UNCHANGED <<err, exit>>
     ELSE Raise("IOError")
  /\ UNCHANGED <<sample, source, cloc, minified_size, gzip_size, text, stdout>>
  /\ UNCHANGED env

\* Line 5: source = source_file.read()
ReadSource ==
  /\ pc = "L5"
  /\ Start("ReadSource")
  /\ source' = content[SourcePath]
  /\ pc' = Succ(pc)
  /\ UNCHANGED <<open, sample, cloc, minified_size, gzip_size, text, stdout,
                 err, exit>>
  /\ UNCHANGED env

\* Line 6: cloc = commands.getoutput('cloc ...').split('\n')[2].split(',')[4]
\* A list index out of range raises IndexError.
Cloc ==
  /\ pc = "L6"
  /\ Start("Cloc")
  /\ LET lines == split(getoutput(tool), "\n") IN
     IF Len(lines) < 3 THEN Raise("IndexError") /\ UNCHANGED cloc
     ELSE LET fields == split(lines[3], ",") IN
          IF Len(fields) < 5 THEN Raise("IndexError") /\ UNCHANGED cloc
          ELSE /\ cloc' = fields[5]
               /\ pc' = Succ(pc)
               /\ UNCHANGED <<open, err, exit>>
  /\ UNCHANGED <<sample, source, minified_size, gzip_size, text, stdout>>
  /\ UNCHANGED env

\* Line 7: minified_size = os.path.getsize('Editor.js')
GetsizeMinified ==
  /\ pc = "L7"
  /\ Start("GetsizeMinified")
  /\ IF MinifiedPath \in present
     THEN /\ minified_size' = bytes[MinifiedPath]
          /\ pc' = Succ(pc)
          /\ UNCHANGED <<open, err, exit>>
     ELSE Raise("OSError") /\ UNCHANGED minified_size
  /\ UNCHANGED <<sample, source, cloc, gzip_size, text, stdout>>
  /\ UNCHANGED env

\* Line 8: gzip_size = os.path.getsize('Editor.js.gz')
GetsizeGzip ==
  /\ pc = "L8"
  /\ Start("GetsizeGzip")
  /\ IF GzipPath \in present
     THEN /\ gzip_size' = bytes[GzipPath]
          /\ pc' = Succ(pc)
          /\ UNCHANGED <<open, err, exit>>
     ELSE Raise("OSError") /\ UNCHANGED gzip_size
  /\ UNCHANGED <<sample, source, cloc, minified_size, text, stdout>>
  /\ UNCHANGED env

\* Line 9, the expression: sample.replace(...).replace(...)...; float(cloc)
\* raises ValueError when cloc is not a number.
Substitute ==
  /\ pc = "L9"
  /\ Start("Substitute")
  /\ IF IsFloatLiteral(cloc)
     THEN /\ text' = Substituted(sample, source, minified_size, gzip_size, cloc)
          /\ pc' = Succ(pc)
          /\ UNCHANGED <<open, err, exit>>
     ELSE Raise("ValueError") /\ UNCHANGED text
  /\ UNCHANGED <<sample, source, cloc, minified_size, gzip_size, stdout>>
  /\ UNCHANGED env

\* Line 9, the statement: print writes the text and a newline.  The write
\* itself is taken to succeed (standard output is there and accepts it).
PrintText ==
  /\ pc = "L9print"
  /\ Start("PrintText")
  /\ stdout' = Append(stdout, text \o "\n")
  /\ pc' = Succ(pc)
  /\ UNCHANGED <<open, sample, source, cloc, minified_size, gzip_size, text,
                 err, exit>>
  /\ UNCHANGED env

\* The end of the inner with block closes source_file.
CloseSource ==
  /\ pc = "L5exit"
  /\ Start("CloseSource")
  /\ open' = SubSeq(open, 1, Len(open) - 1)
  /\ pc' = Succ(pc)
  /\ UNCHANGED <<sample, source, cloc, minified_size, gzip_size, text, stdout,
                 err, exit>>
  /\ UNCHANGED env

\* The end of the outer with block closes html_file; the script ends and
\* the interpreter exits with status 0.
CloseTemplate ==
  /\ pc = "L3exit"
  /\ Start("CloseTemplate")
  /\ open' = SubSeq(open, 1, Len(open) - 1)
  /\ pc' = Succ(pc)
  /\ exit' = 0
  /\ UNCHANGED <<sample, source, cloc, minified_size, gzip_size, text, stdout,
                 err>>
  /\ UNCHANGED env

Next ==
  \/ OpenTemplate
  \/ ReadTemplate
  \/ OpenSource
  \/ ReadSource
  \/ Cloc
  \/ GetsizeMinified
  \/ GetsizeGzip
  \/ Substitute
  \/ PrintText
  \/ CloseSource
  \/ CloseTemplate

-----------------------------------------------------------------------------
(* The environments the script is run in.                                  *)

\* The state of the interpreter before line 2.
InitProg ==
  /\ pc = "L2"
  /\ open = <<>>
  /\ sample = ""
  /\ source = ""
  /\ cloc = ""
  /\ minified_size = 0
  /\ gzip_size = 0
  /\ text = ""
  /\ stdout = <<>>
  /\ err = "none"
  /\ exit = -1
  /\ steps = <<>>

\* An environment: which files exist, the two texts, the two sizes and the
\* outcome of the tool.  What the script cannot see (the text or size of a
\* missing file, the output of a tool that was not found) is left empty.
InitEnv(Existing, Templates, Sources, SizePairs, Tools) ==
  /\ present \in Existing
  /\ \E t \in Templates, s \in Sources :
       content = [p \in {TemplatePath, SourcePath} |->
                    IF p \notin present THEN ""
                    ELSE IF p = TemplatePath THEN t ELSE s]
  /\ \E mg \in SizePairs :
       bytes = [p \in {MinifiedPath, GzipPath} |->
                    IF p \notin present THEN 0
                    ELSE IF p = MinifiedPath THEN mg[1] ELSE mg[2]]
  /\ tool \in Tools

\* The lines of a tool output: a blank line, the CSV header, the line of
\* the counted file, then further lines.
Header  == "files,language,blank,comment,code"
Trailer == "1,SUM,7,9,4096"

RECURSIVE JoinLines(_)
JoinLines(ls) ==
  IF Len(ls) = 0 THEN ""
  ELSE IF Len(ls) = 1 THEN ls[1]
  ELSE ls[1] \o "\n" \o JoinLines(SubSeq(ls, 2, Len(ls)))

OutputLines(n, d) ==
  [i \in 1..n |-> IF i = 1 THEN "" ELSE IF i = 2 THEN Header
                  ELSE IF i = 3 THEN d ELSE Trailer]

\* Tool outputs of 0..maxLines lines whose 3rd line is drawn from dataLines,
\* with and without a final newline.
RawOutputs(maxLines, dataLines) ==
  { JoinLines(OutputLines(n, d)) \o nl :
      n \in 0..maxLines, d \in dataLines, nl \in {"", "\n"} }

ToolsOver(outputs) ==
  [status : {"ok", "failed"}, output : outputs]
    \cup {[status |-> "notfound", output |-> ""]}

MaxLines == 4

\* The end-to-end scenario of the specification.
Template8 == "<p>SOURCE lines, MINIFIED_SIZE KB min, GZIP_SIZE KB gz, CLOCk loc</p>"
Source8   == "const x = 1;"
DataLine8 == "1,JavaScript,7,9,2048"

DataLines ==
  {DataLine8, "1,JavaScript,7,9,x", "1,JavaScript,7,9,", "1,JavaScript,7", ""}

Init ==
  /\ InitEnv(SUBSET Paths,
             {Template8, "CLOC GZIP_SIZE MINIFIED_SIZE SOURCE"},
             {Source8, ""},
             {1024, 2048} \X {1024, 2048},
             ToolsOver(RawOutputs(MaxLines, DataLines)))
  /\ InitProg

Spec == Init /\ [][Next]_vars

-----------------------------------------------------------------------------
(* Valid environments for the numbers: every file is there, the tool      *)
(* succeeds, and one of the three numbers runs over a range.              *)

MaxBytes == 3100

Numbers == (0..MaxBytes) \cup {10240, 10291, 153600, 153601}

CountPrefix == "\n" \o Header \o "\n1,JavaScript,7,9,"
CountOutput(c) == CountPrefix \o Str(c) \o "\n"

InitNumbers ==
  /\ \E n \in Numbers :
       \/ InitEnv({Paths}, {Template8}, {Source8}, {<<n, 1024>>},
                  {[status |-> "ok", output |-> CountOutput(2048)]})
       \/ InitEnv({Paths}, {Template8}, {Source8}, {<<2048, n>>},
                  {[status |-> "ok", output |-> CountOutput(2048)]})
       \/ InitEnv({Paths}, {Template8}, {Source8}, {<<2048, 1024>>},
                  {[status |-> "ok", output |-> CountOutput(n)]})
  /\ InitProg

SpecNumbers == InitNumbers /\ [][Next]_vars

-----------------------------------------------------------------------------
(* Valid environments for the texts: templates that hold each of the four *)
(* tokens exactly once, in any order, some of them wrapped in text that    *)
(* spells part of a token, and source listings that may spell tokens too.  *)

Tokens == {SOURCE, MINIFIED_SIZE, GZIP_SIZE, CLOC}
TokenLength == Len(SOURCE) + Len(MINIFIED_SIZE) + Len(GZIP_SIZE) + Len(CLOC)

\* The places (1-based) where t occurs in s.
Occurrences(s, t) ==
  { i \in 1..(Len(s) - Len(t) + 1) : SubSeq(s, i, i + Len(t) - 1) = t }

ValidTemplate(s) == \A t \in Tokens : Cardinality(Occurrences(s, t)) = 1

MaxWrapped   == 1
MaxSrcPieces == 1

NoWrap == <<"", "">>
Wraps  == {<<"SO", "URCE">>, <<"CL", "OC">>, <<"GZIP_", "SIZE">>, <<" ", ", ">>}

Orders == { p \in [1..4 -> Tokens] : \A i, j \in 1..4 : p[i] = p[j] => i = j }

Wrappings ==
  { w \in [1..4 -> Wraps \cup {NoWrap}] :
      Cardinality({ i \in 1..4 : w[i] # NoWrap }) <= MaxWrapped }

Wrapped(p, w, i) == w[i][1] \o p[i] \o w[i][2]

ValidTemplates ==
  { s \in { Wrapped(p, w, 1) \o Wrapped(p, w, 2) \o Wrapped(p, w, 3)
              \o Wrapped(p, w, 4) : p \in Orders, w \in Wrappings } :
      ValidTemplate(s) }

SrcPieces == {"x", SOURCE, CLOC}

RECURSIVE Listings(_)
Listings(n) ==
  IF n = 0 THEN {""}
  ELSE LET shorter == Listings(n - 1)
       IN  shorter \cup { s \o q : s \in shorter, q \in SrcPieces }

InitTexts ==
  /\ InitEnv({Paths}, ValidTemplates, Listings(MaxSrcPieces), {<<2048, 1024>>},
             {[status |-> "ok", output |-> CountOutput(2048)]})
  /\ InitProg

SpecTexts == InitTexts /\ [][Next]_vars

-----------------------------------------------------------------------------
(* Properties.                                                             *)

Terminated      == pc \in {"done", "failed"}
AfterSubstitute == pc \in {"L9print", "L5exit", "L3exit", "done"}

Dist(a, b) == IF a >= b THEN a - b ELSE b - a

\* The page that Template8 and Source8 give, for the three number texts.
Page8(min, gz, kloc) ==
  "<p>" \o Source8 \o " lines, " \o min \o " KB min, " \o gz \o " KB gz, "
        \o kloc \o "k loc</p>"

\* The template with its one SOURCE token swapped for the source listing.
Inlined ==
  LET tpl == content[TemplatePath]
      i   == CHOOSE k \in Occurrences(tpl, SOURCE) : TRUE
  IN  Upto(tpl, i - 1) \o content[SourcePath] \o From(tpl, i - 1 + Len(SOURCE))

\* C1 as stated: on valid inputs the printed text holds none of the four
\* tokens SOURCE, MINIFIED_SIZE, GZIP_SIZE, CLOC.
C1_NoTokenLeft ==
  pc = "done" => \A t \in Tokens : Occurrences(stdout[1], t) = {}

\* C1 amended: on valid inputs the printed text holds no MINIFIED_SIZE, no
\* GZIP_SIZE and no CLOC, and it holds SOURCE exactly when the template
\* with its SOURCE token swapped for the source listing spells SOURCE.
C1_NoNumberTokenLeft ==
  pc = "done" =>
    /\ \A t \in Tokens \ {SOURCE} : Occurrences(stdout[1], t) = {}
    /\ Occurrences(stdout[1], SOURCE) = {} <=> Occurrences(Inlined, SOURCE) = {}

\* A run on a valid template and an empty listing that prints SOURCE.
C1_Witness ==
  /\ pc = "done"
  /\ content[SourcePath] = ""
  /\ Occurrences(stdout[1], SOURCE) # {}

\* C2 as stated: on valid inputs the length of the substituted text is the
\* length of the template, less the four tokens, plus the four values.
C2_LengthOfOutput ==
  AfterSubstitute =>
    Len(text) = Len(content[TemplatePath]) - TokenLength
                  + Len(content[SourcePath])
                  + Len(Format0f(bytes[MinifiedPath]))
                  + Len(Format0f(bytes[GzipPath]))
                  + Len(Format1f(FloatValue(cloc)))

\* The line count the tool reported: the digits that end its output.
Count == FloatValue(SubSeq(tool.output, Len(CountPrefix) + 1, Len(tool.output) - 1))

\* C3 as stated: CLOC becomes the count over 1024 to one decimal place,
\* 10.0 for a count of 10240 and 10.1 for a count of 10291.
C3_ExamplesAsStated ==
  (AfterSubstitute /\ bytes[MinifiedPath] = 2048 /\ bytes[GzipPath] = 1024) =>
    /\ Count = 10240 => text = Page8("2", "1", "10.0")
    /\ Count = 10291 => text = Page8("2", "1", "10.1")

\* C3 amended: CLOC becomes t/10 written with one decimal, t an integer
\* nearest to 10*count/1024; that is 10.0 for a count of 10240 and 10.0
\* again for a count of 10291.
C3_ClocOneDecimal ==
  (AfterSubstitute /\ bytes[MinifiedPath] = 2048 /\ bytes[GzipPath] = 1024) =>
    /\ \E t \in 0..((10 * Count) \div 1024 + 1) :
         /\ Dist(1024 * t, 10 * Count) <= 512
         /\ text = Page8("2", "1", Str(t \div 10) \o "." \o Str(t % 10))
    /\ Count = 10240 => text = Page8("2", "1", "10.0")
    /\ Count = 10291 => text = Page8("2", "1", "10.0")

\* A finished run on a count of 10291.
C3_Witness ==
  /\ pc = "done"
  /\ cloc = "10291"
  /\ stdout = <<Page8("2", "1", "10.0") \o "\n">>

\* C4: MINIFIED_SIZE and GZIP_SIZE become the decimal text of an integer
\* nearest to the byte size over 1024; 153600 and 153601 bytes both give 150.
C4_SizesRoundedToNearest ==
  (AfterSubstitute /\ Count = 2048) =>
    LET m == bytes[MinifiedPath]
        g == bytes[GzipPath]
    IN  /\ \E k \in 0..(m \div 1024 + 1), j \in 0..(g \div 1024 + 1) :
             /\ Dist(1024 * k, m) <= 512
             /\ Dist(1024 * j, g) <= 512
             /\ text = Page8(Str(k), Str(j), "2.0")
        /\ m \in {153600, 153601} => text = Page8("150", "1", "2.0")
        /\ g \in {153600, 153601} => text = Page8("2", "150", "2.0")

\* A finished run on a minified bundle of 153601 bytes.
C4_Witness ==
  /\ pc = "done"
  /\ minified_size = 153601
  /\ stdout = <<Page8("150", "1", "2.0") \o "\n">>

\* Some step of the run is bound to fail: a file is missing, the tool was
\* not found or exited with a failure, or an exception was raised.
SomeStepFails ==
  \/ present # Paths
  \/ tool.status # "ok"
  \/ err # "none"

\* C5 as stated: when the minified bundle is missing, or any step fails (a
\* missing file, a tool failure, a parse failure), the run ends failed,
\* with a non-zero exit status and nothing on standard output.
C5_FailureEmitsNothing ==
  (Terminated /\ SomeStepFails) =>
    /\ pc = "failed"
    /\ exit \notin {-1, 0}
    /\ stdout = <<>>

\* C6 as stated: a tool output of fewer than 3 lines fails the run with a
\* tool error, not with an index fault.
C6_ShortOutputIsToolError ==
  (pc = "failed" /\ "Cloc" \in {steps[i] : i \in 1..Len(steps)}
     /\ tool.status # "notfound"
     /\ \E n \in 0..2, d \in DataLines, nl \in {"", "\n"} :
          tool.output = JoinLines(OutputLines(n, d)) \o nl) =>
    err # "IndexError"

\* C7 as stated: when the tool is not found or exits with a failure, the
\* run never completes and prints nothing, whatever the tool wrote.
C7_ToolFailureFailsRun ==
  tool.status \in {"failed", "notfound"} => (pc # "done" /\ stdout = <<>>)

\* The end-to-end scenario: the four files and a tool output whose 3rd
\* line has 2048 as its 5th field.
Scenario8 ==
  /\ present = Paths
  /\ content[TemplatePath] = Template8
  /\ content[SourcePath] = Source8
  /\ bytes[MinifiedPath] = 2048
  /\ bytes[GzipPath] = 1024
  /\ tool.status = "ok"
  /\ \E n \in 3..MaxLines, nl \in {"", "\n"} :
       tool.output = JoinLines(OutputLines(n, DataLine8)) \o nl

\* C8: in the end-to-end scenario the substituted text is exactly
\* "<p>const x = 1; lines, 2 KB min, 1 KB gz, 2.0k loc</p>".
C8_EndToEnd ==
  (Scenario8 /\ Terminated) =>
    /\ pc = "done"
    /\ text = "<p>const x = 1; lines, 2 KB min, 1 KB gz, 2.0k loc</p>"
    /\ stdout = <<text \o "\n">>

\* The end-to-end scenario has run to its end.
C8_Witness == Scenario8 /\ pc = "done" /\ Len(stdout) = 1

\* The statements of the script in the order of its text.
Order ==
  <<"OpenTemplate", "ReadTemplate", "OpenSource", "ReadSource", "Cloc",
    "GetsizeMinified", "GetsizeGzip", "Substitute", "PrintText",
    "CloseSource", "CloseTemplate">>

\* C9: the steps run in the fixed order (template, source listing, tool,
\* the two sizes, substitution, print), none before the earlier ones have
\* succeeded, none twice, and standard output is written exactly once in a
\* successful run, by the print step, after which only the files close.
C9_FixedOrder ==
  /\ Len(steps) <= Len(Order)
  /\ \A i \in 1..Len(steps) : steps[i] = Order[i]
  /\ pc = "failed" <=> err # "none"
  /\ pc = "failed" => steps # <<>>
  /\ pc = "done" <=> steps = Order
  /\ Len(stdout) <= 1
  /\ Len(stdout) = 1 <=> (Len(steps) >= 9 /\ pc # "failed")
  /\ Len(steps) >= 9 => pc # "failed"

\* A successful run, with its one write.
C9_Witness == pc = "done" /\ Len(stdout) = 1 /\ Len(steps) = 11

\* C10: when the run ends, by success or by the failure of any step, no
\* file handle is open; while it runs, only the files of the with blocks
\* it is in are open.
C10_HandlesClosed ==
  /\ Terminated => open = <<>>
  /\ Len(open) <= 2
  /\ \A i \in 1..Len(open) : open[i] = <<TemplatePath, SourcePath>>[i]

\* A run that failed on a missing bundle, after both files had been opened.
C10_Witness ==
  /\ pc = "failed"
  /\ err = "OSError"
  /\ Len(steps) >= 6
  /\ open = <<>>

====
